---- MODULE Spec2Model ----
(***************************************************************************)
(* Model of the LRU cache engine of the store package (lruCache): the      *)
(* recency list, the key index, the expiration index, byte accounting,     *)
(* the eviction passes, the cleanup goroutine and Close.                   *)
(*                                                                         *)
(* Spec      : one caller using Set, Delete, Clear, SetMaxBytes and the    *)
(*             expiration operations over three keys, plus the cleanup     *)
(*             sweep.  Every critical section is one step.                 *)
(* SpecCalls : one caller over two keys with Get split at its two          *)
(*             critical sections and its `go c.Delete(key)` goroutine;     *)
(*             lastCall records the call made by the last caller step.     *)
(* SpecClose : the ticker, cleanupLoop step by step, and Close.            *)
(* SpecConc  : several callers; the shared-lock (RLock) sections of        *)
(*             GetWithExpiration, UpdateExpiration and GetExpiration are   *)
(*             entered and left in separate steps, so they overlap.        *)
(* SpecRace  : two callers of GetWithExpiration over three keys, with the  *)
(*             statements of their list.MoveToBack interleaved.            *)
(* SpecReentrant : one caller of an engine whose eviction callback calls   *)
(*             back into the engine.                                       *)
(* SpecResize : one caller whose stored values change their Len().         *)
(***************************************************************************)
EXTENDS Integers, Sequences, FiniteSets, TLC

(* ---- bounds of the model ---- *)
MaxTime == 2
MaxAsync == 1
NThreads == 2
\* values change size only while usedBytes is within this bound
MaxResizeBytes == 11

Keys == {"a", "b", "cc"}
Values == {1, 4}
Nil == -1
TTLs == {0, 1}
MaxBytesChoices == {0, 5}
Threads == 1..NThreads
\* the keys of the specifications that follow single steps of Get, Close and the locks
KeysSmall == {"a", "cc"}
NoKey == ""

VARIABLES
    lru,          \* c.lru: sequence of entries, lru[1] = Front(), lru[Len] = Back()
    items,        \* c.items: the keys of the map key -> element
    expires,      \* c.expires: key -> expiry instant
    maxBytes,     \* c.maxBytes
    usedBytes,    \* c.usedBytes
    onEvictedSet, \* c.onEvicted != nil
    onEvictedCalls, \* the engine method the callback calls on the same engine ("none": it calls none)
    evicted,      \* the onEvicted invocations <<key, value>> made by the last step
    now,          \* time.Now()
    ret,          \* the found/ok result of the last call that returned one
    getPending,   \* a Get between its RUnlock and its Lock
    asyncDeletes, \* key -> number of `go c.Delete(key)` goroutines not yet run
    tickBuffered, \* cleanupTicker.C holds a tick
    closed,       \* Close has run: ticker stopped, closeCh closed
    loopPc,       \* position of cleanupLoop
    fault,        \* "none", or how the process left defined behaviour
    rsec,         \* per caller thread: the shared-lock section it is inside
    lastCall      \* SpecCalls only: the caller's last call, until a Delete goroutine runs

vars == <<lru, items, expires, maxBytes, usedBytes, onEvictedSet, onEvictedCalls, evicted, now,
          ret, getPending, asyncDeletes, tickBuffered, closed, loopPc, fault, rsec,
          lastCall>>

(* ---- helpers ---- *)
EmptyMap == [k \in {} |-> 0]
Restrict(f, S) == [x \in S |-> f[x]]
RemoveAt(s, i) == SubSeq(s, 1, i - 1) \o SubSeq(s, i + 1, Len(s))
RECURSIVE Perms(_)
\* the orders in which a map with key set S can be ranged over
Perms(S) == IF S = {} THEN {<<>>} ELSE UNION {{<<x>> \o p : p \in Perms(S \ {x})} : x \in S}

\* Value.Len()
ValueLen(v) == v

\* len(entry.key) + entry.value.Len()
EntrySize(e) == Len(e.key) + ValueLen(e.value)

\* list.MoveToBack / list.MoveToFront / list.PushBack
MoveToBack(s, i) == RemoveAt(s, i) \o <<s[i]>>
MoveToFront(s, i) == <<s[i]>> \o RemoveAt(s, i)
PushBack(s, e) == Append(s, e)

\* c.items[key]: the element of the list the map points to
ElemOf(s, k) == CHOOSE i \in 1..Len(s) : s[i].key = k

\* an expiry check that already fires at the expiry instant
AfterOrAt(t, expire) == t >= expire

\* now.After(expire)
After(t, expire) == t > expire

\* the engine's data as one record, with the callbacks of the step in progress
Cur == [lru |-> lru, items |-> items, expires |-> expires, usedBytes |-> usedBytes,
        evicted |-> <<>>, fault |-> "none"]

Commit(c) ==
    /\ lru' = c.lru
    /\ items' = c.items
    /\ expires' = c.expires
    /\ usedBytes' = c.usedBytes
    /\ evicted' = c.evicted
    /\ fault' = c.fault

NoGet == [key |-> NoKey, value |-> Nil]
Idle == [op |-> "idle", key |-> NoKey, ttl |-> 0]
\* a call with its key, its value (argument or result) and the expiry instant it set
CallRec(op, k, v, e) == [op |-> op, key |-> k, value |-> v, exp |-> e]
NoCall == CallRec("none", NoKey, Nil, 0)

\* a removal that forgets the callback
removeElementSilent(c, i) ==
    LET entry == c.lru[i] IN
    [c EXCEPT !.lru = RemoveAt(c.lru, i),
              !.items = c.items \ {entry.key},
              !.expires = Restrict(c.expires, DOMAIN c.expires \ {entry.key}),
              !.usedBytes = c.usedBytes - EntrySize(entry)]

\* a removal that leaves the key's expiry behind
removeElementKeepExpiry(c, i) ==
    LET entry == c.lru[i] IN
    [c EXCEPT !.lru = RemoveAt(c.lru, i),
              !.items = c.items \ {entry.key},
              !.usedBytes = c.usedBytes - EntrySize(entry),
              !.evicted = IF onEvictedSet THEN Append(c.evicted, <<entry.key, entry.value>>)
                          ELSE c.evicted]

\* a removal whose callback returns whatever it calls
removeElementReturns(c, i) ==
    LET entry == c.lru[i] IN
    [c EXCEPT !.lru = RemoveAt(c.lru, i),
              !.items = c.items \ {entry.key},
              !.expires = Restrict(c.expires, DOMAIN c.expires \ {entry.key}),
              !.usedBytes = c.usedBytes - EntrySize(entry),
              !.evicted = IF onEvictedSet THEN Append(c.evicted, <<entry.key, entry.value>>)
                          ELSE c.evicted]

\* c.onEvicted(key, value), called with c.mtx locked: a callback that calls Get, Set,
\* Delete or Len of the same engine waits for c.mtx (RLock or Lock), which its own
\* goroutine holds and sync.RWMutex does not hand out twice: it never returns
Reenters == onEvictedSet /\ onEvictedCalls # "none"

(* ---- lruCache.removeElement ---- *)
removeElement(c, i) ==
    LET entry == c.lru[i] IN
    [c EXCEPT !.lru = RemoveAt(c.lru, i),
              !.items = c.items \ {entry.key},
              !.expires = Restrict(c.expires, DOMAIN c.expires \ {entry.key}),
              !.usedBytes = c.usedBytes - EntrySize(entry),
              !.evicted = IF onEvictedSet THEN Append(c.evicted, <<entry.key, entry.value>>)
                          ELSE c.evicted,
              !.fault = IF Reenters THEN "deadlock" ELSE c.fault]

(* ---- lruCache.evict ---- *)
\* keys the expiration pass removes
Expired(c, t) == {k \in DOMAIN c.expires : After(t, c.expires[k])}

\* first loop of evict: the map is ranged over in the order `order`
RECURSIVE evictExpired(_, _)
evictExpired(c, order) ==
    IF order = <<>> \/ c.fault # "none" THEN c
    ELSE IF Head(order) \notin c.items
         THEN [c EXCEPT !.fault = "panic"]  \* removeElement(nil)
         ELSE evictExpired(removeElement(c, ElemOf(c.lru, Head(order))), Tail(order))

\* a capacity pass that spares the last element of the list
RECURSIVE evictCapacityKeepLast(_, _)
evictCapacityKeepLast(c, max) ==
    IF c.fault = "none" /\ max > 0 /\ c.usedBytes > max /\ Len(c.lru) > 1
    THEN evictCapacityKeepLast(removeElement(c, 1), max)
    ELSE c

\* second loop of evict
RECURSIVE evictCapacity(_, _)
evictCapacity(c, max) ==
    IF c.fault = "none" /\ max > 0 /\ c.usedBytes > max
    THEN IF c.lru # <<>>
         THEN evictCapacity(removeElement(c, 1), max)
         ELSE [c EXCEPT !.fault = "hang"]  \* Front() = nil: the loop never ends
    ELSE c

evict(c, order, max) == evictCapacity(evictExpired(c, order), max)

\* a Delete that falls back to the front element when the key is absent
deleteKeyOrFront(c, k) ==
    IF k \in c.items THEN removeElement(c, ElemOf(c.lru, k))
    ELSE IF c.lru # <<>> THEN removeElement(c, 1) ELSE c

(* ---- lruCache.Delete ---- *)
deleteKey(c, k) == IF k \in c.items THEN removeElement(c, ElemOf(c.lru, k)) ELSE c

CallerReady == fault = "none" /\ getPending = NoGet /\ \A t \in Threads : rsec[t] = Idle

Delete(k) ==
    /\ CallerReady
    /\ Commit(deleteKey(Cur, k))
    /\ ret' = (k \in items)
    /\ UNCHANGED <<maxBytes, onEvictedSet, onEvictedCalls, now, getPending, asyncDeletes, tickBuffered,
                   closed, loopPc, rsec>>

(* ---- lruCache.SetWithExpiration ---- *)
\* the expiration index after the first branch of SetWithExpiration
setExpiry(c, k, d, t) ==
    [c EXCEPT !.expires = IF d > 0 THEN [x \in DOMAIN c.expires \cup {k} |->
                                            IF x = k THEN t + d ELSE c.expires[x]]
                          ELSE Restrict(c.expires, DOMAIN c.expires \ {k})]

\* an overwrite that forgets the size delta
updateEntryNoDelta(c, k, v) ==
    LET i == ElemOf(c.lru, k) IN
    [c EXCEPT !.lru = MoveToBack([c.lru EXCEPT ![i].value = v], i)]

\* key present: value replaced in place, size delta accounted, moved to back, return
updateEntry(c, k, v) ==
    LET i == ElemOf(c.lru, k)
        entry == c.lru[i]
    IN [c EXCEPT !.usedBytes = c.usedBytes + (ValueLen(v) - ValueLen(entry.value)),
                 !.lru = MoveToBack([c.lru EXCEPT ![i].value = v], i)]

\* key absent: new element at the back, then evict()
insertEntry(c, k, v, t, order, max) ==
    evict([c EXCEPT !.lru = PushBack(c.lru, [key |-> k, value |-> v]),
                    !.items = c.items \cup {k},
                    !.usedBytes = c.usedBytes + (Len(k) + ValueLen(v))],
          order, max)

setWithExpiration(c, k, v, d, t, order, max) ==
    LET c1 == setExpiry(c, k, d, t) IN
    IF k \in c1.items THEN updateEntry(c1, k, v)
    ELSE insertEntry(c1, k, v, t, order, max)

SetWithExpiration(k, v, d) ==
    /\ CallerReady
    /\ IF v = Nil
       THEN Commit(deleteKey(Cur, k))
       ELSE \E order \in Perms(Expired(setExpiry(Cur, k, d, now), now)) :
                Commit(setWithExpiration(Cur, k, v, d, now, order, maxBytes))
    /\ UNCHANGED <<ret, maxBytes, onEvictedSet, onEvictedCalls, now, getPending, asyncDeletes, tickBuffered,
                   closed, loopPc, rsec>>

(* ---- lruCache.Set ---- *)
Set(k, v) == SetWithExpiration(k, v, 0)

(* ---- lruCache.Get ---- *)
RECURSIVE SumOver(_, _)
SumOver(f, S) == IF S = {} THEN 0 ELSE LET x == CHOOSE y \in S : TRUE IN f[x] + SumOver(f, S \ {x})
PendingDeletes == SumOver(asyncDeletes, Keys)

\* the section under RLock: lookup, expiry check, read of the value
GetRead(k) ==
    /\ CallerReady
    /\ IF k \notin items
       THEN /\ ret' = FALSE
            /\ UNCHANGED <<getPending, asyncDeletes>>
       ELSE IF k \in DOMAIN expires /\ After(now, expires[k])
       THEN /\ PendingDeletes < MaxAsync
            /\ asyncDeletes' = [asyncDeletes EXCEPT ![k] = @ + 1]  \* go c.Delete(key)
            /\ ret' = FALSE
            /\ UNCHANGED getPending
       ELSE /\ getPending' = [key |-> k, value |-> lru[ElemOf(lru, k)].value]
            /\ UNCHANGED <<ret, asyncDeletes>>
    /\ evicted' = <<>>
    /\ UNCHANGED <<lru, items, expires, maxBytes, usedBytes, onEvictedSet, onEvictedCalls, now,
                   tickBuffered, closed, loopPc, fault, rsec>>

\* the recency move of Get
getMove(s, i) == MoveToFront(s, i)

\* the section under Lock: reposition the element if the key is still there
GetTouch ==
    /\ fault = "none"
    /\ getPending # NoGet
    /\ lru' = IF getPending.key \in items THEN getMove(lru, ElemOf(lru, getPending.key))
              ELSE lru
    /\ ret' = TRUE
    /\ getPending' = NoGet
    /\ evicted' = <<>>
    /\ UNCHANGED <<items, expires, maxBytes, usedBytes, onEvictedSet, onEvictedCalls, now, asyncDeletes,
                   tickBuffered, closed, loopPc, fault, rsec>>

\* the goroutine started by `go c.Delete(key)`
AsyncDelete(k) ==
    /\ fault = "none"
    /\ \A t \in Threads : rsec[t] = Idle
    /\ asyncDeletes[k] > 0
    /\ asyncDeletes' = [asyncDeletes EXCEPT ![k] = @ - 1]
    /\ Commit(deleteKey(Cur, k))
    /\ UNCHANGED <<maxBytes, onEvictedSet, onEvictedCalls, now, ret, getPending, tickBuffered, closed,
                   loopPc, rsec>>

(* ---- lruCache.Clear ---- *)
\* the callbacks of Clear, the map ranged over in the order `order`
clearCallbacks(s, order) ==
    IF onEvictedSet THEN [i \in 1..Len(order) |-> <<order[i], s[ElemOf(s, order[i])].value>>]
    ELSE <<>>

\* a Clear that keeps the byte counter
clearAllKeepBytes(c, order) ==
    [c EXCEPT !.evicted = clearCallbacks(c.lru, order),
              !.lru = <<>>,
              !.items = {},
              !.expires = EmptyMap]

\* the callbacks run first: one that never returns leaves the cache as it was
clearAll(c, order) ==
    IF Reenters /\ order # <<>>
    THEN [c EXCEPT !.evicted = SubSeq(clearCallbacks(c.lru, order), 1, 1),
                   !.fault = "deadlock"]
    ELSE [c EXCEPT !.evicted = clearCallbacks(c.lru, order),
                   !.lru = <<>>,
                   !.items = {},
                   !.expires = EmptyMap,
                   !.usedBytes = 0]

Clear ==
    /\ CallerReady
    /\ \E order \in Perms(items) : Commit(clearAll(Cur, order))
    /\ UNCHANGED <<ret, maxBytes, onEvictedSet, onEvictedCalls, now, getPending, asyncDeletes, tickBuffered,
                   closed, loopPc, rsec>>

(* ---- lruCache.Len, lruCache.UsedBytes, lruCache.MaxBytes ---- *)
LenOf == Len(lru)
UsedBytes == usedBytes
MaxBytes == maxBytes

\* a call of Len: a read under RLock that changes nothing
LenCall ==
    /\ CallerReady
    /\ evicted' = <<>>
    /\ UNCHANGED <<lru, items, expires, maxBytes, usedBytes, onEvictedSet, onEvictedCalls, now, ret, getPending,
                   asyncDeletes, tickBuffered, closed, loopPc, fault, rsec>>

(* ---- lruCache.SetMaxBytes ---- *)
\* a change of the ceiling that never evicts
setMaxBytesNoEvict(c, m, order) == c

setMaxBytes(c, m, order) == IF m > 0 THEN evict(c, order, m) ELSE c

SetMaxBytes(m) ==
    /\ CallerReady
    /\ maxBytes' = m
    /\ \E order \in Perms(Expired(Cur, now)) : Commit(setMaxBytes(Cur, m, order))
    /\ UNCHANGED <<ret, onEvictedSet, onEvictedCalls, now, getPending, asyncDeletes, tickBuffered, closed,
                   loopPc, rsec>>

(* ---- lruCache.GetWithExpiration ---- *)
gweHit(c, k, t) == k \in c.items /\ ~(k \in DOMAIN c.expires /\ After(t, c.expires[k]))

getWithExpiration(c, k, t) ==
    IF gweHit(c, k, t) THEN [c EXCEPT !.lru = MoveToBack(c.lru, ElemOf(c.lru, k))] ELSE c

\* the value and the remaining duration GetWithExpiration returns
gweValue(c, k, t) == IF gweHit(c, k, t) THEN c.lru[ElemOf(c.lru, k)].value ELSE Nil
gweRemaining(c, k, t) ==
    IF gweHit(c, k, t) /\ k \in DOMAIN c.expires THEN c.expires[k] - t ELSE 0

GetWithExpiration(k) ==
    /\ CallerReady
    /\ Commit(getWithExpiration(Cur, k, now))
    /\ ret' = gweHit(Cur, k, now)
    /\ UNCHANGED <<maxBytes, onEvictedSet, onEvictedCalls, now, getPending, asyncDeletes, tickBuffered,
                   closed, loopPc, rsec>>

(* ---- lruCache.GetExpiration ---- *)
\* the instant GetExpiration returns (the zero time when none is set)
gexpTime(c, k) == IF k \in DOMAIN c.expires THEN c.expires[k] ELSE 0

GetExpiration(k) ==
    /\ CallerReady
    /\ ret' = (k \in DOMAIN expires)
    /\ evicted' = <<>>
    /\ UNCHANGED <<lru, items, expires, maxBytes, usedBytes, onEvictedSet, onEvictedCalls, now, getPending,
                   asyncDeletes, tickBuffered, closed, loopPc, fault, rsec>>

(* ---- lruCache.UpdateExpiration ---- *)
updateExpiration(c, k, d, t) == IF k \in c.items THEN setExpiry(c, k, d, t) ELSE c

UpdateExpiration(k, d) ==
    /\ CallerReady
    /\ Commit(updateExpiration(Cur, k, d, now))
    /\ ret' = (k \in items)
    /\ UNCHANGED <<maxBytes, onEvictedSet, onEvictedCalls, now, getPending, asyncDeletes, tickBuffered,
                   closed, loopPc, rsec>>

(* ---- lruCache.Close ---- *)
\* a Close that closes closeCh only the first time
CloseOnce ==
    /\ CallerReady
    /\ closed' = TRUE
    /\ evicted' = <<>>
    /\ UNCHANGED <<ret, lru, items, expires, maxBytes, usedBytes, onEvictedSet, onEvictedCalls, now, getPending,
                   asyncDeletes, tickBuffered, loopPc, rsec, fault>>

\* cleanupTicker.Stop(); close(closeCh): closing a closed channel panics
Close ==
    /\ fault \in {"none", "deadlock"}  \* Close takes no lock
    /\ getPending = NoGet
    /\ \A t \in Threads : rsec[t] = Idle
    /\ IF closed THEN fault' = "panic" /\ UNCHANGED closed
       ELSE closed' = TRUE /\ UNCHANGED fault
    /\ evicted' = <<>>
    /\ UNCHANGED <<ret, lru, items, expires, maxBytes, usedBytes, onEvictedSet, onEvictedCalls, now, getPending,
                   asyncDeletes, tickBuffered, loopPc, rsec>>

(* ---- time.Ticker and lruCache.cleanupLoop ---- *)
\* the ticker sends on its channel of capacity 1 and drops the tick when it is full
TickerFire ==
    /\ fault = "none"
    /\ ~closed
    /\ ~tickBuffered
    /\ tickBuffered' = TRUE
    /\ evicted' = <<>>
    /\ UNCHANGED <<lru, items, expires, maxBytes, usedBytes, onEvictedSet, onEvictedCalls, now, ret,
                   getPending, asyncDeletes, closed, loopPc, fault, rsec>>

\* select: case <-c.cleanupTicker.C
LoopRecvTick ==
    /\ fault = "none"
    /\ loopPc = "select"
    /\ tickBuffered
    /\ tickBuffered' = FALSE
    /\ loopPc' = "sweep"
    /\ evicted' = <<>>
    /\ UNCHANGED <<lru, items, expires, maxBytes, usedBytes, onEvictedSet, onEvictedCalls, now, ret,
                   getPending, asyncDeletes, closed, fault, rsec>>

\* c.mtx.Lock(); c.evict(); c.mtx.Unlock()
LoopSweep ==
    /\ fault = "none"
    /\ \A t \in Threads : rsec[t] = Idle
    /\ loopPc = "sweep"
    /\ \E order \in Perms(Expired(Cur, now)) : Commit(evict(Cur, order, maxBytes))
    /\ loopPc' = "select"
    /\ UNCHANGED <<maxBytes, onEvictedSet, onEvictedCalls, now, ret, getPending, asyncDeletes,
                   tickBuffered, closed, rsec>>

\* one iteration of the loop on a tick, while the engine is open:
\* case <-c.cleanupTicker.C: c.mtx.Lock(); c.evict(); c.mtx.Unlock()
CleanupTick ==
    /\ fault = "none"
    /\ \A t \in Threads : rsec[t] = Idle
    /\ ~closed
    /\ loopPc = "select"
    /\ \E order \in Perms(Expired(Cur, now)) : Commit(evict(Cur, order, maxBytes))
    /\ UNCHANGED <<maxBytes, onEvictedSet, onEvictedCalls, now, ret, getPending, asyncDeletes,
                   tickBuffered, closed, loopPc, rsec>>

\* select: case <-c.closeCh
LoopRecvClose ==
    /\ fault = "none"
    /\ loopPc = "select"
    /\ closed
    /\ loopPc' = "done"
    /\ evicted' = <<>>
    /\ UNCHANGED <<lru, items, expires, maxBytes, usedBytes, onEvictedSet, onEvictedCalls, now, ret,
                   getPending, asyncDeletes, tickBuffered, closed, fault, rsec>>

(* ---- the clock ---- *)
AdvanceTime ==
    /\ fault = "none"
    /\ now < MaxTime
    /\ now' = now + 1
    /\ evicted' = <<>>
    /\ UNCHANGED <<lru, items, expires, maxBytes, usedBytes, onEvictedSet, onEvictedCalls, ret, getPending,
                   asyncDeletes, tickBuffered, closed, loopPc, fault, rsec>>

(* ---- Value ---- *)
\* The engine stores the caller's Value and asks it for Len() each time it accounts
\* for it.  A Value whose payload the caller changes answers another size from
\* then on; the engine is not told.
ValueResize(k, v) ==
    /\ CallerReady
    /\ usedBytes \in 0..MaxResizeBytes
    /\ k \in items
    /\ lru[ElemOf(lru, k)].value # v
    /\ lru' = [lru EXCEPT ![ElemOf(lru, k)].value = v]
    /\ evicted' = <<>>
    /\ UNCHANGED <<items, expires, maxBytes, usedBytes, onEvictedSet, onEvictedCalls, now, ret,
                   getPending, asyncDeletes, tickBuffered, closed, loopPc, fault, rsec>>

(* ---- the shared-lock sections, entered and left in separate steps ---- *)
\* c.mtx.RLock() of GetWithExpiration, UpdateExpiration, GetExpiration
RLock(t, op, k, d) ==
    /\ fault = "none"
    /\ getPending = NoGet
    /\ rsec[t] = Idle
    /\ rsec' = [rsec EXCEPT ![t] = [op |-> op, key |-> k, ttl |-> d]]
    /\ evicted' = <<>>
    /\ UNCHANGED <<lru, items, expires, maxBytes, usedBytes, onEvictedSet, onEvictedCalls, now, ret,
                   getPending, asyncDeletes, tickBuffered, closed, loopPc, fault>>

GetWithExpirationRLock(t, k) == RLock(t, "gwe", k, 0)
UpdateExpirationRLock(t, k, d) == RLock(t, "upd", k, d)
GetExpirationRLock(t, k) == RLock(t, "gexp", k, 0)

\* what the body of a section writes and reads
Writes(sec) ==
    CASE sec.op = "gwe" -> IF gweHit(Cur, sec.key, now) THEN {"lru"} ELSE {}
      [] sec.op = "upd" -> \* c.expires[key] = ..., or delete(c.expires, key) on a map that is not empty
                           IF sec.key \in items /\ (sec.ttl > 0 \/ DOMAIN expires # {})
                           THEN {"expires"} ELSE {}
      [] OTHER -> {}

Reads(sec) ==
    CASE sec.op = "gwe" -> {"items", "expires"} \cup Writes(sec)
      [] sec.op = "upd" -> {"items"}
      [] sec.op = "gexp" -> {"expires"}
      [] OTHER -> {}

Conflict(a, b) ==
    \/ Writes(a) \cap (Reads(b) \cup Writes(b)) # {}
    \/ Writes(b) \cap (Reads(a) \cup Writes(a)) # {}

\* thread t's body runs while another thread's section accesses the same data
Races(t) == \E u \in Threads \ {t} : rsec[u] # Idle /\ Conflict(rsec[t], rsec[u])

\* a data race on the list or on a map: the run goes on as if the sections had
\* followed each other, or the structure is corrupted / the runtime aborts
RaceFault(t) ==
    /\ Races(t)
    /\ fault' = "race"
    /\ evicted' = <<>>
    /\ UNCHANGED <<lru, items, expires, usedBytes, ret>>

\* body of GetWithExpiration and its deferred RUnlock
GetWithExpirationBody(t) ==
    /\ fault = "none"
    /\ rsec[t].op = "gwe"
    /\ \/ /\ Commit(getWithExpiration(Cur, rsec[t].key, now))
          /\ ret' = gweHit(Cur, rsec[t].key, now)
       \/ RaceFault(t)
    /\ rsec' = [rsec EXCEPT ![t] = Idle]
    /\ UNCHANGED <<maxBytes, onEvictedSet, onEvictedCalls, now, getPending, asyncDeletes, tickBuffered,
                   closed, loopPc>>

\* body of UpdateExpiration and its deferred RUnlock
UpdateExpirationBody(t) ==
    /\ fault = "none"
    /\ rsec[t].op = "upd"
    /\ \/ /\ Commit(updateExpiration(Cur, rsec[t].key, rsec[t].ttl, now))
          /\ ret' = (rsec[t].key \in items)
       \/ RaceFault(t)
    /\ rsec' = [rsec EXCEPT ![t] = Idle]
    /\ UNCHANGED <<maxBytes, onEvictedSet, onEvictedCalls, now, getPending, asyncDeletes, tickBuffered,
                   closed, loopPc>>

\* body of GetExpiration and its deferred RUnlock
GetExpirationBody(t) ==
    /\ fault = "none"
    /\ rsec[t].op = "gexp"
    /\ \/ /\ ret' = (rsec[t].key \in DOMAIN expires)
          /\ evicted' = <<>>
          /\ UNCHANGED <<lru, items, expires, usedBytes, fault>>
       \/ RaceFault(t)
    /\ rsec' = [rsec EXCEPT ![t] = Idle]
    /\ UNCHANGED <<maxBytes, onEvictedSet, onEvictedCalls, now, getPending, asyncDeletes, tickBuffered,
                   closed, loopPc>>

(* ---- two GetWithExpiration calls whose MoveToBack run at the same time ---- *)
\* The list as container/list keeps it: a ring of elements through the sentinel
\* l.root, each with its next and prev pointer.
Root == "root"
NodeAt(s, i) == IF i = 0 \/ i = Len(s) + 1 THEN Root ELSE s[i].key
PosOf(s, n) == IF n = Root THEN 0 ELSE ElemOf(s, n)
Ring(s) ==
    LET N == {Root} \cup {s[i].key : i \in 1..Len(s)} IN
    [next |-> [n \in N |-> NodeAt(s, PosOf(s, n) + 1)],
     prev |-> [n \in N |-> IF n = Root THEN NodeAt(s, Len(s))
                                       ELSE NodeAt(s, PosOf(s, n) - 1)]]

\* the statements of l.MoveToBack(e), in order:
\*   0: if l.root.prev == e { return }      1: at := l.root.prev; if e == at { return }
\*   2: e.prev.next = e.next                3: e.next.prev = e.prev
\*   4: e.prev = at                         5: e.next = at.next
\*   6: e.prev.next = e                     7: e.next.prev = e
MoveDone == 8
MoveStart(k) == [e |-> k, at |-> Root, pc |-> 0]

\* thread i of the racing pair executes its next statement
MoveStep(st, i) ==
    LET m == st.th[i]
        e == m.e
        nx == st.next
        pv == st.prev
        Goto(pc) == [st EXCEPT !.th[i].pc = pc]
    IN CASE m.pc = 0 -> IF pv[Root] = e THEN Goto(MoveDone) ELSE Goto(1)
         [] m.pc = 1 -> IF pv[Root] = e THEN Goto(MoveDone)
                        ELSE [st EXCEPT !.th[i].at = pv[Root], !.th[i].pc = 2]
         [] m.pc = 2 -> [st EXCEPT !.next[pv[e]] = nx[e], !.th[i].pc = 3]
         [] m.pc = 3 -> [st EXCEPT !.prev[nx[e]] = pv[e], !.th[i].pc = 4]
         [] m.pc = 4 -> [st EXCEPT !.prev[e] = m.at, !.th[i].pc = 5]
         [] m.pc = 5 -> [st EXCEPT !.next[e] = nx[m.at], !.th[i].pc = 6]
         [] m.pc = 6 -> [st EXCEPT !.next[pv[e]] = e, !.th[i].pc = 7]
         [] OTHER -> [st EXCEPT !.prev[nx[e]] = e, !.th[i].pc = MoveDone]

MoveSucc(st) == {MoveStep(st, i) : i \in {j \in 1..2 : st.th[j].pc # MoveDone}}

\* every state the two moves reach, in any order of their statements
RECURSIVE MoveReach(_, _)
MoveReach(frontier, seen) ==
    IF frontier = {} THEN seen
    ELSE LET new == (UNION {MoveSucc(st) : st \in frontier}) \ seen
         IN MoveReach(new, seen \cup new)

\* the rings left when both moves have returned
RacingMoves(s, k1, k2) ==
    LET st0 == [next |-> Ring(s).next, prev |-> Ring(s).prev,
                th |-> <<MoveStart(k1), MoveStart(k2)>>]
    IN {[next |-> st.next, prev |-> st.prev] :
           st \in {x \in MoveReach({st0}, {st0}) : \A i \in 1..2 : x.th[i].pc = MoveDone}}

\* the keys met from Front() by following next, up to the sentinel; n steps at most
RECURSIVE Walk(_, _, _)
Walk(r, node, n) ==
    IF node = Root \/ n = 0 THEN <<>> ELSE <<node>> \o Walk(r, r.next[node], n - 1)

\* the walk comes back to the sentinel
Finite(r) == Len(Walk(r, r.next[Root], Cardinality(DOMAIN r.next))) < Cardinality(DOMAIN r.next)

\* the entries of s in the order of the keys ks
EntriesOf(s, ks) == [i \in 1..Len(ks) |-> s[ElemOf(s, ks[i])]]

\* Threads t and u are both inside GetWithExpiration on stored, unexpired keys:
\* their c.lru.MoveToBack(elem) run under the shared lock, statement by statement
\* in any order, then both return and unlock.  A ring that is no longer the ring
\* of a list ends the run in fault "race"; lru then holds what a walk from
\* Front() still meets (nothing is recorded for a walk that never ends).
GetWithExpirationRace(t, u) ==
    /\ fault = "none"
    /\ t # u
    /\ rsec[t].op = "gwe" /\ gweHit(Cur, rsec[t].key, now)
    /\ rsec[u].op = "gwe" /\ gweHit(Cur, rsec[u].key, now)
    /\ \E r \in RacingMoves(lru, rsec[t].key, rsec[u].key) :
          LET ks == Walk(r, r.next[Root], Cardinality(DOMAIN r.next)) IN
          IF Finite(r) /\ r = Ring(EntriesOf(lru, ks))
          THEN lru' = EntriesOf(lru, ks) /\ UNCHANGED fault
          ELSE /\ fault' = "race"
               /\ lru' = IF Finite(r) THEN EntriesOf(lru, ks) ELSE lru
    /\ rsec' = [rsec EXCEPT ![t] = Idle, ![u] = Idle]
    /\ ret' = TRUE
    /\ evicted' = <<>>
    /\ UNCHANGED <<items, expires, usedBytes, maxBytes, onEvictedSet, onEvictedCalls, now, getPending,
                   asyncDeletes, tickBuffered, closed, loopPc>>

(* ---- newLRUCache ---- *)
\* what opts.OnEvicted calls on the engine it was given to
CallbackCalls == {"Get", "Set", "Delete", "Len"}

InitEngine ==
    /\ lru = <<>>
    /\ items = {}
    /\ expires = EmptyMap
    /\ maxBytes \in MaxBytesChoices
    /\ usedBytes = 0
    /\ onEvictedSet \in BOOLEAN
    /\ evicted = <<>>
    /\ now = 0
    /\ ret = FALSE
    /\ getPending = NoGet
    /\ asyncDeletes = [k \in Keys |-> 0]
    /\ tickBuffered = FALSE
    /\ closed = FALSE
    /\ loopPc = "select"
    /\ fault = "none"
    /\ rsec = [t \in Threads |-> Idle]
    /\ lastCall = NoCall

\* an engine whose callback, if any, stays out of the engine
Init == InitEngine /\ onEvictedCalls = "none"

\* an engine whose callback calls back into it
InitReentrant == InitEngine /\ onEvictedSet /\ onEvictedCalls \in CallbackCalls

(* ---- the mutating operations, the reads under one lock, the sweep and the clock ---- *)
Next ==
    \/ \E k \in Keys, v \in Values \cup {Nil}, d \in TTLs :
           SetWithExpiration(k, v, d) /\ UNCHANGED lastCall
    \/ \E k \in Keys, v \in Values \cup {Nil} : Set(k, v) /\ UNCHANGED lastCall
    \/ \E k \in Keys : Delete(k) /\ UNCHANGED lastCall
    \/ Clear /\ UNCHANGED lastCall
    \/ \E m \in MaxBytesChoices : SetMaxBytes(m) /\ UNCHANGED lastCall
    \/ \E k \in Keys : GetWithExpiration(k) /\ UNCHANGED lastCall
    \/ \E k \in Keys : GetExpiration(k) /\ UNCHANGED lastCall
    \/ \E k \in Keys, d \in TTLs : UpdateExpiration(k, d) /\ UNCHANGED lastCall
    \/ CleanupTick /\ UNCHANGED lastCall
    \/ AdvanceTime /\ UNCHANGED lastCall

Spec == Init /\ [][Next]_vars

(* ---- one caller's calls in sequence, Get in its two critical sections, ---- *)
(* ---- and the Delete goroutines Get starts                                ---- *)
\* the instant SetWithExpiration(k, v, d) stores for k (0: none)
ExpiryOf(v, d) == IF v # Nil /\ d > 0 THEN now + d ELSE 0

NextCalls ==
    \/ \E k \in KeysSmall, v \in Values \cup {Nil}, d \in TTLs :
           SetWithExpiration(k, v, d) /\ lastCall' = CallRec("set", k, v, ExpiryOf(v, d))
    \/ \E k \in KeysSmall :
           GetRead(k) /\ lastCall' = IF getPending' = NoGet THEN CallRec("get", k, Nil, 0)
                                     ELSE lastCall
    \/ GetTouch /\ lastCall' = CallRec("get", getPending.key, getPending.value, 0)
    \/ \E k \in KeysSmall : AsyncDelete(k) /\ lastCall' = NoCall
    \/ \E k \in KeysSmall : Delete(k) /\ lastCall' = CallRec("delete", k, Nil, 0)
    \/ \E m \in MaxBytesChoices :
           SetMaxBytes(m) /\ lastCall' = CallRec("setmax", NoKey, m, 0)
    \/ LenCall /\ lastCall' = CallRec("len", NoKey, LenOf, 0)
    \/ CleanupTick /\ UNCHANGED lastCall
    \/ AdvanceTime /\ UNCHANGED lastCall

SpecCalls == Init /\ [][NextCalls]_vars

(* ---- the engine's lifecycle: ticker, cleanupLoop and Close, step by step ---- *)
NextClose ==
    \/ \E k \in KeysSmall, v \in Values, d \in TTLs :
           SetWithExpiration(k, v, d) /\ UNCHANGED lastCall
    \/ Close /\ UNCHANGED lastCall
    \/ TickerFire /\ UNCHANGED lastCall
    \/ LoopRecvTick /\ UNCHANGED lastCall
    \/ LoopSweep /\ UNCHANGED lastCall
    \/ LoopRecvClose /\ UNCHANGED lastCall
    \/ AdvanceTime /\ UNCHANGED lastCall

SpecClose == Init /\ [][NextClose]_vars

(* ---- several callers: the sections under RLock overlap, Lock excludes them ---- *)
NextConc ==
    \/ \E k \in KeysSmall, v \in Values, d \in TTLs :
           SetWithExpiration(k, v, d) /\ UNCHANGED lastCall
    \/ \E k \in KeysSmall : Delete(k) /\ UNCHANGED lastCall
    \/ \E t \in Threads, k \in KeysSmall : GetWithExpirationRLock(t, k) /\ UNCHANGED lastCall
    \/ \E t \in Threads, k \in KeysSmall, d \in TTLs :
           UpdateExpirationRLock(t, k, d) /\ UNCHANGED lastCall
    \/ \E t \in Threads, k \in KeysSmall : GetExpirationRLock(t, k) /\ UNCHANGED lastCall
    \/ \E t \in Threads : GetWithExpirationBody(t) /\ UNCHANGED lastCall
    \/ \E t \in Threads : UpdateExpirationBody(t) /\ UNCHANGED lastCall
    \/ \E t \in Threads : GetExpirationBody(t) /\ UNCHANGED lastCall
    \/ AdvanceTime /\ UNCHANGED lastCall

SpecConc == Init /\ [][NextConc]_vars

(* ---- one caller of an engine whose callback calls back into the engine ---- *)
NextReentrant ==
    \/ \E k \in KeysSmall, v \in Values \cup {Nil}, d \in TTLs :
           SetWithExpiration(k, v, d) /\ UNCHANGED lastCall
    \/ \E k \in KeysSmall : GetRead(k) /\ UNCHANGED lastCall
    \/ GetTouch /\ UNCHANGED lastCall
    \/ \E k \in KeysSmall : AsyncDelete(k) /\ UNCHANGED lastCall
    \/ \E k \in KeysSmall : Delete(k) /\ UNCHANGED lastCall
    \/ Clear /\ UNCHANGED lastCall
    \/ LenCall /\ UNCHANGED lastCall
    \/ \E m \in MaxBytesChoices : SetMaxBytes(m) /\ UNCHANGED lastCall
    \/ CleanupTick /\ UNCHANGED lastCall
    \/ Close /\ UNCHANGED lastCall
    \/ AdvanceTime /\ UNCHANGED lastCall

SpecReentrant == InitReentrant /\ [][NextReentrant]_vars

(* ---- one caller whose values change size while they are stored ---- *)
NextResize ==
    \/ \E k \in KeysSmall, v \in Values, d \in TTLs :
           SetWithExpiration(k, v, d) /\ UNCHANGED lastCall
    \/ \E k \in KeysSmall, v \in Values : ValueResize(k, v) /\ UNCHANGED lastCall
    \/ \E k \in KeysSmall : Delete(k) /\ UNCHANGED lastCall
    \/ \E m \in MaxBytesChoices : SetMaxBytes(m) /\ UNCHANGED lastCall
    \/ CleanupTick /\ UNCHANGED lastCall
    \/ AdvanceTime /\ UNCHANGED lastCall

SpecResize == Init /\ [][NextResize]_vars

(* ---- two callers of GetWithExpiration over three keys ---- *)
NextRace ==
    \/ \E k \in Keys, v \in Values : Set(k, v) /\ UNCHANGED lastCall
    \/ \E t \in Threads, k \in Keys : GetWithExpirationRLock(t, k) /\ UNCHANGED lastCall
    \/ \E t \in Threads : GetWithExpirationBody(t) /\ UNCHANGED lastCall
    \/ \E t, u \in Threads : GetWithExpirationRace(t, u) /\ UNCHANGED lastCall

SpecRace == Init /\ [][NextRace]_vars

(***************************************************************************)
(* Properties                                                              *)
(***************************************************************************)
RECURSIVE SizeOf(_)
\* the sum of len(key) + value.Len() over the entries of a list
SizeOf(s) == IF s = <<>> THEN 0 ELSE EntrySize(Head(s)) + SizeOf(Tail(s))

\* how often the callback was invoked for key k, and with which values
Calls(log, k) == {i \in 1..Len(log) : log[i][1] = k}
ValueIn(s, k) == s[ElemOf(s, k)].value

IsSuffix(s, w) == Len(s) <= Len(w) /\ s = SubSeq(w, Len(w) - Len(s) + 1, Len(w))

\* C1: a successful Get(k) moves k to the most-recently-used end of the recency
\* order, the end the capacity pass of evict removes last (after A, B, C and
\* Get(A), one forced eviction takes B).
C1_GetMovesToMostRecentEnd ==
    [][(GetTouch /\ getPending.key \in items) =>
           lru'[Len(lru')].key = getPending.key]_vars

\* C2: whenever maxBytes > 0, after each operation returns usedBytes <= maxBytes,
\* also after an update of an existing key.
C2_UsedWithinMax == maxBytes > 0 => usedBytes <= maxBytes

\* C3: after each call usedBytes is exactly the sum over the stored entries of
\* len(key) + size of the current value.
C3_UsedBytesExact == usedBytes = SizeOf(lru)

C3_Witness == Len(lru) >= 2 /\ evicted # <<>> /\ \E i \in 1..Len(lru) : lru[i].value = 4

\* what no Set, Delete or Clear changes (a cheap test made before the action's own)
SetFrame == UNCHANGED <<now, maxBytes, ret>>

\* the recency order once Set(k, v) has written its entry at the most-recent end
Written(k, v) ==
    LET Other(e) == e.key # k IN SelectSeq(lru, Other) \o <<[key |-> k, value |-> v]>>

\* C4: when a Set pushes usedBytes above a positive maxBytes, the capacity pass
\* removes exactly the least-recently-touched entries needed to get back to
\* usedBytes <= maxBytes: what is left is a suffix of the recency order, it fits,
\* and one entry more would not fit.
C4_SetEvictsExactlyLRU ==
    [][\A k \in Keys, v \in Values, d \in TTLs :
          (/\ maxBytes > 0
           /\ SetFrame
           /\ Expired(Cur, now) = {}
           /\ SetWithExpiration(k, v, d)) =>
              LET w == Written(k, v) IN
              /\ IsSuffix(lru', w)
              /\ SizeOf(lru') <= maxBytes
              /\ Len(lru') < Len(w) =>
                     SizeOf(SubSeq(w, Len(w) - Len(lru'), Len(w))) > maxBytes]_vars

InsertedAndGone(k, v) ==
    /\ k \notin items
    /\ k \notin items'
    /\ SetFrame
    /\ \E d \in TTLs : SetWithExpiration(k, v, d)

\* C6: with a callback configured, every entry that leaves the cache (Delete,
\* write of nil, capacity eviction, expiration, Clear) is reported exactly once
\* with its key and value, and no key that stays is reported.
C6_CallbackOncePerRemoval ==
    [][/\ ~onEvictedSet => evicted' = <<>>
       /\ onEvictedSet => \A k \in Keys :
             IF k \in items /\ k \notin items'
             THEN \E i \in 1..Len(evicted') :
                     Calls(evicted', k) = {i} /\ evicted'[i] = <<k, ValueIn(lru, k)>>
             ELSE IF \E v \in Values : InsertedAndGone(k, v)
             THEN \E i \in 1..Len(evicted') :
                     Calls(evicted', k) = {i} /\ InsertedAndGone(k, evicted'[i][2])
             ELSE Calls(evicted', k) = {}]_vars

C6_Witness == onEvictedSet /\ Len(evicted) >= 2 /\ lru # <<>> /\ maxBytes > 0

\* C7: after Clear, Len() = 0, UsedBytes() = 0, no key has an expiry, and the
\* callback (if set) ran exactly once per key stored before the call.
C7_ClearEmpties ==
    [][(SetFrame /\ Clear) =>
          /\ Len(lru') = 0
          /\ items' = {}
          /\ usedBytes' = 0
          /\ DOMAIN expires' = {}
          /\ ~onEvictedSet => evicted' = <<>>
          /\ onEvictedSet =>
                /\ Len(evicted') = Len(lru)
                /\ \A j \in 1..Len(lru) : \E i \in 1..Len(evicted') :
                      /\ Calls(evicted', lru[j].key) = {i}
                      /\ evicted'[i] = <<lru[j].key, lru[j].value>>]_vars

C7_Witness ==
    onEvictedSet /\ maxBytes = 0 /\ now = 0 /\ Len(evicted) = 3 /\ lru = <<>> /\ usedBytes = 0

\* C8: Delete of a key that is not stored returns false and changes nothing:
\* usedBytes, recency order, key index, expiration index; no callback runs.
C8_DeleteAbsentIsNoOp ==
    [][\A k \in KeysSmall : (k \notin items /\ Delete(k)) =>
          /\ ret' = FALSE
          /\ evicted' = <<>>
          /\ UNCHANGED <<lru, items, expires, usedBytes, maxBytes>>]_vars

C8_Witness ==
    /\ lastCall.op = "delete"
    /\ ~ret
    /\ lru # <<>>
    /\ DOMAIN expires # {}
    /\ usedBytes > 0

\* C9: once Close has returned, the cleanup goroutine runs no further sweep
\* (and so invokes no further callback).
C9_NoSweepAfterClose == [][closed => ~LoopSweep]_vars

\* C10: the recency order, the key index, the expiration index and usedBytes
\* change only under exclusive access: never in a step taken while a thread,
\* the mutating one included, is inside a shared-lock section.
C10_MutationOnlyUnderExclusiveLock ==
    [][<<lru, items, expires, usedBytes>>' # <<lru, items, expires, usedBytes>> =>
           \A t \in Threads : rsec[t] = Idle]_vars

\* C11: an expired key counts as absent from the Get that discovers it onward:
\* once Get(k) has returned (nil, false), the Len() call made right after it does
\* not count k (with k the only key stored, Len() = 0).
C11_LenAfterExpiredGet ==
    [][(/\ lastCall.op = "get"
        /\ lastCall.value = Nil
        /\ LenCall
        /\ lastCall'.op = "len") =>
           lastCall'.value = Cardinality(items \ {lastCall.key})]_vars

\* the recency order without key k
Without(s, k) == LET Other(e) == e.key # k IN SelectSeq(s, Other)

\* C12: a write of a nil value is Delete(key): it returns normally; the entry, its
\* expiry and its accounted bytes are gone, the callback ran once if the key was
\* stored, the other entries are untouched, and on an absent key nothing changes.
C12_NilWriteIsDelete ==
    [][\A k \in KeysSmall, d \in TTLs :
          (/\ lastCall'.op = "set"
           /\ lastCall'.key = k
           /\ lastCall'.value = Nil
           /\ SetWithExpiration(k, Nil, d)) =>
              /\ fault' = "none"
              /\ items' = items \ {k}
              /\ lru' = Without(lru, k)
              /\ expires' = Restrict(expires, DOMAIN expires \ {k})
              /\ usedBytes' = usedBytes - (IF k \in items
                                              THEN Len(k) + ValueLen(ValueIn(lru, k)) ELSE 0)
              /\ evicted' = IF k \in items /\ onEvictedSet
                            THEN <<<<k, ValueIn(lru, k)>>>> ELSE <<>>
              /\ k \notin items =>
                     UNCHANGED <<lru, items, expires, usedBytes, maxBytes, ret>>]_vars

C12_Witness ==
    /\ lastCall.op = "set"
    /\ lastCall.value = Nil
    /\ Len(evicted) = 1
    /\ evicted[1][1] = lastCall.key
    /\ lru # <<>>
    /\ DOMAIN expires # {}

\* C13: SetMaxBytes(m) with m > 0 evicts at once, so usedBytes <= m when it
\* returns; SetMaxBytes(m) with m <= 0 removes nothing; and while maxBytes <= 0 no
\* step removes an entry for capacity: a key that leaves the cache was expired,
\* or was deleted by name (Delete, the Delete goroutine of Get, a write of nil).
C13_SetMaxBytesEnforcesCeiling ==
    [][/\ \A m \in MaxBytesChoices :
             (/\ lastCall'.op = "setmax"
              /\ lastCall'.value = m
              /\ SetMaxBytes(m)) =>
                 /\ maxBytes' = m
                 /\ fault' = "none"
                 /\ m > 0 => usedBytes' <= m
                 /\ m <= 0 => (evicted' = <<>> /\ UNCHANGED <<lru, items, expires, usedBytes>>)
       /\ (maxBytes <= 0 /\ maxBytes' <= 0) =>
             \A k \in items \ items' :
                \/ k \in Expired(Cur, now)
                \/ Delete(k)
                \/ AsyncDelete(k)
                \/ \E d \in TTLs : SetWithExpiration(k, Nil, d)]_vars

C13_Witness ==
    /\ lastCall.op = "setmax"
    /\ lastCall.value > 0
    /\ maxBytes = lastCall.value
    /\ now = 0
    /\ evicted # <<>>
    /\ lru # <<>>

\* the keys of the recency order
KeysIn(s) == {s[i].key : i \in 1..Len(s)}

\* C14: outside the critical sections the three indexes agree: the key index
\* holds exactly the keys of the recency order, every key occupies one position
\* of it, and every key of the expiration index is in the key index.
C14_IndexesConsistent ==
    (fault \in {"none", "race"} /\ \A t \in Threads : rsec[t] = Idle) =>
        /\ items = KeysIn(lru)
        /\ \A i, j \in 1..Len(lru) : lru[i].key = lru[j].key => i = j
        /\ DOMAIN expires \subseteq items

\* C15: a second Close on the same engine releases the termination signal twice:
\* the call ends in a panic (close of a closed channel), it is not a no-op.
C15_SecondClosePanics == [][(closed /\ Close) => fault' = "panic"]_vars

C15_Witness == closed /\ fault = "panic"

\* C16: the callback runs inside the exclusive critical section of the operation
\* that removes the entry, so a callback that calls Get, Set, Delete or Len of the
\* same engine never returns: the step that invokes it ends deadlocked, and from
\* then on no operation on the engine takes a step.
C16_ReentrantCallbackDeadlocks ==
    [][/\ (Reenters /\ evicted' # <<>>) => fault' = "deadlock"
       /\ fault = "deadlock" => FALSE]_vars

\* C16 as amended: from then on no operation that takes the engine's lock takes a
\* step; Close, which takes none, still runs.
C16_ReentrantCallbackDeadlocksLockTakers ==
    [][/\ (Reenters /\ evicted' # <<>>) => fault' = "deadlock"
       /\ fault = "deadlock" =>
             (Close /\ UNCHANGED <<lru, items, expires, usedBytes, maxBytes, ret, now,
                                   getPending, asyncDeletes>>)]_vars

C16_Witness == fault = "deadlock" /\ Len(evicted) = 1 /\ lru # <<>> /\ ~closed

\* the expiration index with k's instant set to t + d (d > 0) or removed
WithExpiry(k, d, t) ==
    IF d > 0 THEN [x \in DOMAIN expires \cup {k} |-> IF x = k THEN t + d ELSE expires[x]]
    ELSE Restrict(expires, DOMAIN expires \ {k})

\* C17: UpdateExpiration(k, ttl) on a stored key returns true and changes only
\* k's entry of the expiration index (now + ttl if ttl > 0, removed otherwise):
\* values, recency order, key index and usedBytes stay; on an absent key it
\* returns false and changes nothing.
C17_UpdateExpirationFrame ==
    [][\A t \in Threads : UpdateExpirationBody(t) =>
          LET k == rsec[t].key IN
          IF k \in items
          THEN /\ fault' = "none"
               /\ ret' = TRUE
               /\ expires' = WithExpiry(k, rsec[t].ttl, now)
               /\ UNCHANGED <<lru, items, usedBytes>>
          ELSE /\ fault' = "none"
               /\ ret' = FALSE
               /\ UNCHANGED <<lru, items, expires, usedBytes>>]_vars

\* C18: the capacity pass of evict always terminates: with the recency order
\* empty it stops even when usedBytes > maxBytes, so no Set, SetMaxBytes or sweep
\* spins forever holding the lock.
C18_CapacityPassTerminates == fault # "hang"

\* C19: the Delete that a Get starts after it saw an expired entry removes only
\* that expired entry: it never removes the value a later Set(k, v), already
\* returned, stored under the same key.
C19_SpawnedDeleteSparesLaterSet ==
    [][\A k \in KeysSmall :
          (/\ lastCall.op = "set"
           /\ lastCall.key = k
           /\ lastCall.value # Nil
           /\ k \in items
           /\ ~(k \in DOMAIN expires /\ After(now, expires[k]))
           /\ lastCall'.op = "none"
           /\ AsyncDelete(k)) =>
              (k \in items' /\ ValueIn(lru', k) = lastCall.value)]_vars

\* the new entry of SetWithExpiration(k, v, d) alone exceeds a positive maxBytes
Oversized(k, v) == maxBytes > 0 /\ Len(k) + ValueLen(v) > maxBytes

\* C20: with maxBytes > 0, a Set of a new key whose accounted size exceeds
\* maxBytes returns normally and stores nothing: in that call every entry stored
\* before and then the new entry are evicted (from the front of the recency
\* order when none has expired), each reported once, leaving Len() = 0 and
\* usedBytes = 0; the Get of that key that follows returns not-found.
C20_OversizedSetStoresNothing ==
    [][/\ \A k \in KeysSmall, v \in Values, d \in TTLs :
             (/\ Oversized(k, v)
              /\ k \notin items
              /\ lastCall' = CallRec("set", k, v, ExpiryOf(v, d))
              /\ SetWithExpiration(k, v, d)) =>
                 /\ fault' = "none"
                 /\ lru' = <<>>
                 /\ items' = {}
                 /\ DOMAIN expires' = {}
                 /\ usedBytes' = 0
                 /\ onEvictedSet =>
                       /\ Len(evicted') = Len(lru) + 1
                       /\ evicted'[Len(evicted')] = <<k, v>>
                       /\ \A j \in 1..Len(lru) : \E i \in 1..Len(lru) :
                             /\ Calls(evicted', lru[j].key) = {i}
                             /\ evicted'[i] = <<lru[j].key, lru[j].value>>
                       /\ Expired(Cur, now) = {} =>
                             \A j \in 1..Len(lru) : evicted'[j][1] = lru[j].key
       /\ \A k \in KeysSmall :
             (/\ lastCall.op = "set"
              /\ lastCall.key = k
              /\ lastCall.value # Nil
              /\ Oversized(k, lastCall.value)
              /\ items = {}
              /\ lastCall'.op = "get"
              /\ GetRead(k)) =>
                 (getPending' = NoGet /\ ret' = FALSE /\ lastCall'.value = Nil)]_vars

C20_Witness ==
    /\ lastCall.op = "set"
    /\ lastCall.value # Nil
    /\ Oversized(lastCall.key, lastCall.value)
    /\ lru = <<>>
    /\ usedBytes = 0
    /\ Len(evicted) >= 2
    /\ evicted[Len(evicted)] = <<lastCall.key, lastCall.value>>
====
